---- MODULE Spec2Model ----
(***************************************************************************)
(* GitBase: records stored as files of a GitHub repository (the remote     *)
(* store), with an encrypted local backup directory.  The model covers     *)
(* PlayerDataSystem (src/gitbase/playerDataSystem.py) and DataSystem       *)
(* (src/gitbase/dataSystem.py) over the remote client of                   *)
(* src/gitbase/gitbase.py.                                                  *)
(*                                                                         *)
(* A run constructs one of the two systems (sys) and then calls its public *)
(* operations one after the other (single caller, blocking calls).  Every  *)
(* boundary the code does not control is an input of the action: the       *)
(* connectivity probe (online), the outcome of each HTTP call (Net), the   *)
(* outcome of the local file write (disk) and the passing of time.         *)
(*                                                                         *)
(* SpecWriters is a second specification: two callers inside               *)
(* GitHubDatabase.write_data on one path, each call split into its GET of  *)
(* the content hash and its PUT, interleaved in every order.               *)
(***************************************************************************)
EXTENDS Integers, Sequences, FiniteSets, TLC

\* ------------------------------------------------------------------ bounds
MaxOps == 3       \* public operations per run
MaxTime == 2      \* clock values 1..MaxTime (file modification times)
MaxWrites == 2    \* write_data calls per concurrent caller

\* ------------------------------------------------------------- value sets
Names == {"k1", "k2"}                 \* usernames / data keys
FernetKeys == {"A", "B"}              \* symmetric keys a system is built with
Fields == {"f", "g"}                  \* attribute names of a player instance
FieldValues == {1, 2}

\* A record (a Python dict / an instance's __dict__): a function from the
\* attribute names it has to their values.
AllRecords == UNION {[D -> FieldValues] : D \in SUBSET Fields}
NoRec == [x \in {} |-> 1]             \* the empty mapping; also "no record"

\* The player instances a caller passes: one with the attribute f only, one
\* with another f and an attribute g besides.
Instances == {r \in AllRecords : \/ DOMAIN r = {"f"} /\ r["f"] = 1
                                 \/ DOMAIN r = Fields /\ r["f"] = 2 /\ r["g"] = 1}
\* The attributes argument of save_account: None (all) or a list of names.
AttributeLists == {{}, {"f"}}
\* The values DataSystem.save_data is given (any JSON value; here small dicts).
DataValues == {r \in AllRecords : DOMAIN r = {"f"}}

Net == {"ok", "status", "exception"}  \* an HTTP call: 2xx, other status, requests exception

PlayerDir == "players"
DataDir == "data"
RootDir == ""
RemoteDirs == {PlayerDir, DataDir, RootDir}
RemotePaths == RemoteDirs \X Names    \* <<dir, name>> is the file dir/name.json

VARIABLES
  sys,             \* which class was constructed
  encryption_key,  \* self.encryption_key / self.fernet
  remote,          \* the repository: RemotePaths -> file
  local,           \* the backup directory gitbase/players or gitbase/data: Names -> file
  local_dir,       \* whether the backup directory exists
  now,             \* the clock both stores stamp their files with
  ops,             \* number of public operations called so far
  last,            \* what the last operation was given, did and returned
  writer,          \* concurrent callers of write_data: where each is in its call
  issued           \* the PUT requests sent so far, in the order they were sent

vars == <<sys, encryption_key, remote, local, local_dir, now, ops, last, writer, issued>>
\* The state of the concurrent callers; the single caller's operations leave it alone.
wvars == <<writer, issued>>

\* ------------------------------------------------------------ record codec
NoText == [fmt |-> "none", key |-> "", rec |-> NoRec]
NoFile == [text |-> NoText, ts |-> 0]

\* json.dumps: the JSON text of a value.
json_dumps(value) == [fmt |-> "json", key |-> "", rec |-> value]

\* json.loads succeeds on JSON text only (a Fernet token is not JSON).
json_loads_ok(text) == text.fmt = "json"
json_loads(text) == text.rec

\* Fernet(key).encrypt(data): a token only the same key opens.
encrypt_data(data) == [fmt |-> "fernet", key |-> encryption_key, rec |-> data.rec]

\* Fernet(key).decrypt(token): InvalidToken unless token was made with key.
decrypt_ok(text) == text.fmt = "fernet" /\ text.key = encryption_key
decrypt_data(text) == [fmt |-> "json", key |-> "", rec |-> text.rec]

\* Decode with the failure of decrypt or json.loads swallowed: whatever the
\* stored text holds is handed back.
Decode_Unchecked(text, encryption) ==
  [ok |-> text.fmt # "none", rec |-> text.rec]

\* The branch `if encryption: decrypt else: as is`, then json.loads.
\* Gives [ok, rec]; ok is FALSE when decrypt or json.loads raises.
Decode(text, encryption) ==
  IF encryption
    THEN IF decrypt_ok(text)
           THEN [ok |-> TRUE, rec |-> json_loads(decrypt_data(text))]
           ELSE [ok |-> FALSE, rec |-> NoRec]
    ELSE IF json_loads_ok(text)
           THEN [ok |-> TRUE, rec |-> json_loads(text)]
           ELSE [ok |-> FALSE, rec |-> NoRec]

\* {var: getattr(inst, var) for var in attributes if hasattr(inst, var)}, or
\* inst.__dict__ when attributes is None or empty.
ExtractData(player_instance, attributes) ==
  IF attributes # {}
    THEN [x \in attributes \cap DOMAIN player_instance |-> player_instance[x]]
    ELSE player_instance

\* for var, value in player_data.items(): setattr(player_instance, var, value)
SetAttrs(player_instance, player_data) ==
  [x \in DOMAIN player_instance \cup DOMAIN player_data |->
     IF x \in DOMAIN player_data THEN player_data[x] ELSE player_instance[x]]

\* What the boundaries do during one save: the probe, db.write_data, the
\* backup file's write, and whether the clock moves between the two writes.
SaveScenarios ==
  {c \in [online : BOOLEAN, wr : Net, disk : BOOLEAN, dt : {0, 1}] :
     /\ ~c.online => c.wr = "ok"
     /\ c.wr = "status" => c.disk
     /\ c.dt = 1 => (c.online /\ c.wr = "ok" /\ c.disk)}

\* What the boundaries do during one load: the probe, db.read_data,
\* db.get_file_last_modified and db.write_data.
LoadScenarios ==
  {c \in [online : BOOLEAN, rd : Net, lm : {"ok", "exception"}, wr : Net] :
     /\ ~c.online => c.rd = "ok"
     /\ c.rd # "ok" => c.lm = "ok"
     /\ (~c.online \/ c.lm # "ok") => c.wr = "ok"}

\* ------------------------------------------------------- remote store client
\* GitHubDatabase.read_data: (content, sha) on 200, (None, None) otherwise.
db_read_data(path, rd) ==
  IF rd = "ok" THEN remote[path].text ELSE NoText

\* GitHubDatabase.write_data: GET the sha, PUT the content; the status code.
write_status(path, wr) ==
  IF wr = "ok" THEN (IF remote[path] = NoFile THEN 201 ELSE 200) ELSE 500

db_write_data(path, data, wr) ==
  IF wr = "ok" THEN [remote EXCEPT ![path] = [text |-> data, ts |-> now]] ELSE remote

\* GitBase.delete_data: 204 and the file is gone, 404 when there is none.
delete_status(path, dl) ==
  IF dl = "ok" THEN (IF remote[path] = NoFile THEN 404 ELSE 204) ELSE 500

db_delete_data(path, dl) ==
  IF dl = "ok" THEN [remote EXCEPT ![path] = NoFile] ELSE remote

\* GitBase.get_file_last_modified: the time of the file's last commit.
get_file_last_modified(path) == remote[path].ts

\* ---------------------------------------------- write_data, step by step
\* Callers that run write_data on the same path at the same time: each call
\* is a GET of the file's content hash, then a PUT.
Writers == {"w1", "w2"}
WritePath == <<PlayerDir, CHOOSE n \in Names : TRUE>>
Contents == {json_dumps(r) : r \in DataValues}    \* the data argument

\* The content hash (blob sha) the host gives a file; NoSha is Python's None.
NoSha == [blob |-> NoText]
sha_of(file) == [blob |-> file.text]

\* _get_file_content: (content, sha) on 200, (None, None) on 404.
get_file_sha(path) == sha_of(remote[path])

IdleWriter == [pc |-> "idle", data |-> NoText, sha |-> NoSha, status |-> 0, calls |-> 0]

\* write_data that never puts the sha in the payload.
put_payload_sha_Missing(w) == NoSha

\* if sha: payload["sha"] = sha  -- the hash the PUT carries.
put_payload_sha(w) == writer[w].sha

\* The host's answer to PUT: 201 creates, 200 overwrites when the payload's
\* sha is the file's current one, 422 when an existing file is overwritten
\* without a sha, 409 when the sha is stale.
host_put_status(file, sha) ==
  IF file = NoFile THEN (IF sha = NoSha THEN 201 ELSE 409)
  ELSE IF sha = NoSha THEN 422
  ELSE IF sha = sha_of(file) THEN 200
  ELSE 409

\* write_data, first half: content, sha = self._get_file_content(path).
write_get(w, data) ==
  /\ writer[w].pc \in {"idle", "done"}
  /\ writer[w].calls < MaxWrites
  /\ writer' = [writer EXCEPT ![w] = [pc |-> "put", data |-> data,
                                      sha |-> get_file_sha(WritePath), status |-> 0,
                                      calls |-> writer[w].calls + 1]]
  /\ UNCHANGED <<sys, encryption_key, remote, local, local_dir, now, ops, last, issued>>

\* write_data, second half: requests.put(url, json=payload); return status_code.
write_put(w) ==
  LET file == remote[WritePath]
      code == host_put_status(file, put_payload_sha(w))
  IN /\ writer[w].pc = "put"
     /\ remote' = IF code \in {200, 201}
                    THEN [remote EXCEPT ![WritePath] = [text |-> writer[w].data, ts |-> now]]
                    ELSE remote
     /\ writer' = [writer EXCEPT ![w].pc = "done", ![w].status = code]
     /\ issued' = Append(issued, [w |-> w, data |-> writer[w].data,
                                  fresh |-> writer[w].sha = sha_of(file),
                                  status |-> code])
     /\ UNCHANGED <<sys, encryption_key, local, local_dir, now, ops, last>>

\* ------------------------------------------------------------ the summary
\* What an operation was given, did and returned (the model's view of the
\* call's result, printed messages and raised exception).
NoAll == [n \in Names |-> NoRec]
NoPre == [saved |-> FALSE, rec |-> NoRec, e |-> FALSE, online |-> FALSE,
          net |-> "ok", dir |-> "", deleted |-> FALSE]

Idle ==
  [op |-> "init", name |-> "", dir |-> "", e |-> FALSE, online |-> FALSE,
   flag |-> FALSE, net |-> "ok", outcome |-> "none", found |-> FALSE,
   rec |-> NoRec, before |-> NoRec, inst |-> NoRec, branch |-> "none",
   calls |-> 0, writes |-> 0, pushed |-> NoText, code |-> 0,
   localw |-> FALSE, fault |-> FALSE, lfile |-> NoFile, rfile |-> NoFile,
   src |-> NoText, pre |-> NoPre, all |-> NoAll, listed |-> {}, bad |-> {}]

SaveOps == {"save_account", "save_data"}
LoadOps == {"load_account", "load_data"}
DeleteOps == {"delete_account", "delete_data"}

\* What directly preceded a call on `name`: a save of it that returned, or a
\* delete of it (local copy kept) that directly followed such a save.
PreOf(name) ==
  IF last.op \in SaveOps /\ last.name = name /\ last.outcome = "ok"
    THEN [saved |-> TRUE, rec |-> last.rec, e |-> last.e, online |-> last.online,
          net |-> last.net, dir |-> last.dir, deleted |-> FALSE]
  ELSE IF last.op \in DeleteOps /\ last.name = name /\ last.outcome = "ok"
          /\ ~last.flag /\ last.pre.saved
    THEN [last.pre EXCEPT !.deleted = TRUE]
  ELSE NoPre

\* --------------------------------------------------------- PlayerDataSystem
\* save_offline_account writing the JSON text as it is, without encrypt_data.
save_offline_account_Plain(username, player_instance, attributes, t) ==
  [local EXCEPT ![username] =
     [text |-> json_dumps(ExtractData(player_instance, attributes)), ts |-> t]]

\* save_offline_account: the backup file, always encrypted, stamped t.
save_offline_account(username, player_instance, attributes, t) ==
  [local EXCEPT ![username] =
     [text |-> encrypt_data(json_dumps(ExtractData(player_instance, attributes))),
      ts |-> t]]

\* save_account without the is_online() test: db.write_data is always called.
SaveAccountPlan_NoProbe(online, wr, disk) ==
  [remoteCall |-> TRUE,
   remoteOk |-> wr = "ok",
   localw |-> (wr # "status") /\ disk,
   outcome |-> IF wr # "status" /\ ~disk THEN "raise" ELSE "ok"]

\* save_account's control flow: which writes it attempts and how it ends.
\*   wr   outcome of db.write_data (read only when online)
\*   disk whether the backup file can be written during this call
SaveAccountPlan(online, wr, disk) ==
  LET remoteOk == online /\ wr = "ok"
      tryLocal == ~online \/ wr = "ok" \/ wr = "exception"
  IN [remoteCall |-> online,
      remoteOk |-> remoteOk,
      localw |-> tryLocal /\ disk,
      outcome |-> IF tryLocal /\ ~disk THEN "raise" ELSE "ok"]

save_account(username, player_instance, encryption, attributes, path, online, wr, disk, dt) ==
  LET player_data == ExtractData(player_instance, attributes)
      encrypted_data == IF encryption THEN encrypt_data(json_dumps(player_data))
                                      ELSE json_dumps(player_data)
      full_path == <<path, username>>
      plan == SaveAccountPlan(online, wr, disk)
  IN /\ sys = "PlayerDataSystem"
     /\ ops < MaxOps
     /\ now + dt <= MaxTime
     /\ remote' = IF plan.remoteCall THEN db_write_data(full_path, encrypted_data, wr) ELSE remote
     /\ local' = IF plan.localw
                   THEN save_offline_account(username, player_instance, attributes, now + dt)
                   ELSE local
     /\ local_dir' = (local_dir \/ ~online \/ wr # "status")
     /\ now' = now + dt
     /\ ops' = ops + 1
     /\ last' = [Idle EXCEPT !.op = "save_account", !.name = username, !.dir = path,
                             !.e = encryption, !.online = online, !.net = wr,
                             !.outcome = plan.outcome, !.rec = player_data,
                             !.calls = IF plan.remoteCall THEN 1 ELSE 0,
                             !.writes = IF plan.remoteCall THEN 1 ELSE 0,
                             !.pushed = IF plan.remoteCall THEN encrypted_data ELSE NoText,
                             !.code = IF online /\ wr # "exception"
                                        THEN write_status(full_path, wr) ELSE 0,
                             !.localw = plan.localw, !.fault = (online /\ wr # "ok")]
     /\ UNCHANGED <<wvars, sys, encryption_key>>

\* load_offline_account: [ok, found, rec, inst].
load_offline_account(username, player_instance) ==
  IF local[username] = NoFile
    THEN [ok |-> TRUE, found |-> FALSE, rec |-> NoRec, inst |-> player_instance]
  ELSE IF ~decrypt_ok(local[username].text)
    THEN [ok |-> FALSE, found |-> FALSE, rec |-> NoRec, inst |-> player_instance]
  ELSE LET player_data == json_loads(decrypt_data(local[username].text))
       IN [ok |-> TRUE, found |-> TRUE, rec |-> player_data,
           inst |-> SetAttrs(player_instance, player_data)]

\* if offline_data_exists and offline_timestamp > online_timestamp
LocalIsNewer(username, path) ==
  local[username] # NoFile /\ local[username].ts > get_file_last_modified(path)

\* The content load_account pushes after loading a newer local copy.
SyncContent(player_instance) == json_dumps(player_instance)

\* load_account: [outcome, found, rec, inst, branch, calls, writes, pushed, remote, src];
\* src is the stored text it went to decode.
\*   rd outcome of db.read_data, lm of db.get_file_last_modified, wr of db.write_data
LoadAccountResult(username, player_instance, encryption, online, rd, lm, wr) ==
  LET path == <<PlayerDir, username>>
      offline_data_exists == local[username] # NoFile
      off == load_offline_account(username, player_instance)
      base == [outcome |-> "ok", found |-> FALSE, rec |-> NoRec, inst |-> player_instance,
               branch |-> "none", calls |-> 0, writes |-> 0, pushed |-> NoText,
               remote |-> remote, src |-> NoText]
      fromLocal(b, c) ==
        [base EXCEPT !.outcome = IF off.ok THEN "ok" ELSE "raise", !.found = off.found,
                     !.rec = off.rec, !.inst = off.inst, !.branch = b, !.calls = c,
                     !.src = local[username].text]
  IN IF ~online THEN fromLocal("offline", 0)
     ELSE IF rd = "exception"
       THEN [base EXCEPT !.outcome = "raise", !.branch = "read-failed", !.calls = 1]
     ELSE IF db_read_data(path, rd) # NoText
       THEN IF lm = "exception"
              THEN [base EXCEPT !.outcome = "raise", !.branch = "stamp-failed", !.calls = 2]
            ELSE IF LocalIsNewer(username, path)
              THEN IF ~off.ok THEN fromLocal("local-newer", 2)
                   ELSE [fromLocal("local-newer", 3) EXCEPT
                           !.outcome = IF wr = "exception" THEN "raise" ELSE "ok",
                           !.writes = 1,
                           !.pushed = SyncContent(off.inst),
                           !.remote = db_write_data(path, SyncContent(off.inst), wr)]
            ELSE LET d == Decode(db_read_data(path, rd), encryption)
                 IN IF d.ok
                      THEN [base EXCEPT !.found = TRUE, !.rec = d.rec,
                                        !.inst = SetAttrs(player_instance, d.rec),
                                        !.branch = "remote", !.calls = 2,
                                        !.src = db_read_data(path, rd)]
                      ELSE [base EXCEPT !.outcome = "raise", !.branch = "remote",
                                        !.calls = 2, !.src = db_read_data(path, rd)]
     ELSE IF offline_data_exists THEN fromLocal("local-only", 1)
     ELSE [base EXCEPT !.branch = "nodata", !.calls = 1]

load_account(username, player_instance, encryption, online, rd, lm, wr) ==
  LET r == LoadAccountResult(username, player_instance, encryption, online, rd, lm, wr)
  IN /\ sys = "PlayerDataSystem"
     /\ ops < MaxOps
     /\ r.calls < 2 => lm = "ok"
     /\ r.calls < 3 => wr = "ok"
     /\ remote' = r.remote
     /\ ops' = ops + 1
     /\ last' = [Idle EXCEPT !.op = "load_account", !.name = username, !.dir = PlayerDir,
                             !.e = encryption, !.online = online, !.net = rd,
                             !.outcome = r.outcome, !.found = r.found, !.rec = r.rec,
                             !.before = player_instance, !.inst = r.inst,
                             !.branch = r.branch, !.calls = r.calls, !.writes = r.writes,
                             !.pushed = r.pushed, !.pre = PreOf(username),
                             !.fault = (online /\ (rd # "ok" \/ lm # "ok" \/ wr # "ok")),
                             !.lfile = local[username],
                             !.rfile = remote[<<PlayerDir, username>>], !.src = r.src]
     /\ UNCHANGED <<wvars, sys, encryption_key, local, local_dir, now>>

\* delete_account: db.delete_data first; a transport exception is re-raised
\* before the local backup is looked at.
delete_account(username, delete_offline, dl) ==
  LET online_path == <<PlayerDir, username>>
      raised == dl = "exception"
      removeLocal == ~raised /\ delete_offline /\ local[username] # NoFile
  IN /\ sys = "PlayerDataSystem"
     /\ ops < MaxOps
     /\ remote' = IF raised THEN remote ELSE db_delete_data(online_path, dl)
     /\ local' = IF removeLocal THEN [local EXCEPT ![username] = NoFile] ELSE local
     /\ ops' = ops + 1
     /\ last' = [Idle EXCEPT !.op = "delete_account", !.name = username, !.dir = PlayerDir,
                             !.flag = delete_offline, !.net = dl,
                             !.outcome = IF raised THEN "raise" ELSE "ok",
                             !.calls = 1,
                             !.code = IF raised THEN 0 ELSE delete_status(online_path, dl),
                             !.localw = removeLocal, !.pre = PreOf(username),
                             !.fault = (dl # "ok")]
     /\ UNCHANGED <<wvars, sys, encryption_key, local_dir, now>>

\* What the boundaries do during one get_all: the probe, the directory
\* listing request and the per-file db.read_data.
GetAllScenarios ==
  {c \in [online : BOOLEAN, ls : Net, rd : Net] :
     /\ ~c.online => c.ls = "ok"
     /\ c.ls # "ok" => c.rd = "ok"}

\* The orders a directory listing can come in.
Orders == {o \in [1..Cardinality(Names) -> Names] : \A i, j \in 1..Cardinality(Names) :
                                                      o[i] = o[j] => i = j}

RemoteListing(path, order) == SelectSeq(order, LAMBDA n : remote[<<path, n>>] # NoFile)
LocalListing(order) == SelectSeq(order, LAMBDA n : local[n] # NoFile)

\* The loop over the listed files of the online branch, shared by both
\* get_all: read_data(file['name']), skip when there is no content, else
\* decrypt and json.loads.  acc is [all, raised].
RECURSIVE ScanOnline(_, _, _)
ScanOnline(files, rd, acc) ==
  IF files = <<>> \/ acc.raised THEN acc
  ELSE LET name == Head(files)
           online_data == db_read_data(<<RootDir, name>>, rd)
       IN IF rd = "exception" THEN [acc EXCEPT !.raised = TRUE]
          ELSE IF online_data = NoText THEN ScanOnline(Tail(files), rd, acc)
          ELSE IF ~decrypt_ok(online_data) THEN [acc EXCEPT !.raised = TRUE]
          ELSE ScanOnline(Tail(files), rd,
                          [acc EXCEPT !.all[name] = json_loads(decrypt_data(online_data))])

\* PlayerDataSystem.get_all: [outcome, all].  Offline, load_offline_account is
\* called without its player_instance argument: a TypeError at the first file.
PlayerGetAllResult(path, online, ls, rd, order) ==
  LET start == [all |-> NoAll, raised |-> FALSE]
  IN IF online
       THEN IF ls = "exception" THEN [outcome |-> "raise", all |-> NoAll]
            ELSE IF ls = "status" THEN [outcome |-> "ok", all |-> NoAll]
            ELSE LET r == ScanOnline(RemoteListing(path, order), rd, start)
                 IN IF r.raised THEN [outcome |-> "raise", all |-> NoAll]
                                ELSE [outcome |-> "ok", all |-> r.all]
       ELSE IF ~local_dir \/ LocalListing(order) # <<>>
              THEN [outcome |-> "raise", all |-> NoAll]
              ELSE [outcome |-> "ok", all |-> NoAll]

\* The names get_all is asked to enumerate, and those whose stored file the
\* system's key and json.loads cannot decode.
Stored(path, online) ==
  IF online THEN {n \in Names : remote[<<path, n>>] # NoFile}
            ELSE {n \in Names : local[n] # NoFile}
StoredText(path, online, n) == IF online THEN remote[<<path, n>>].text ELSE local[n].text
Undecodable(path, online) ==
  {n \in Stored(path, online) :
     ~decrypt_ok(StoredText(path, online, n)) /\ ~json_loads_ok(StoredText(path, online, n))}

player_get_all(path, online, ls, rd, order) ==
  LET r == PlayerGetAllResult(path, online, ls, rd, order)
  IN /\ sys = "PlayerDataSystem"
     /\ ops < MaxOps
     /\ ops' = ops + 1
     /\ last' = [Idle EXCEPT !.op = "get_all", !.dir = path, !.online = online, !.net = ls,
                             !.outcome = r.outcome, !.all = r.all,
                             !.calls = IF online THEN 1 ELSE 0,
                             !.fault = (online /\ (ls # "ok" \/ rd # "ok")),
                             !.listed = Stored(path, online),
                             !.bad = Undecodable(path, online)]
     /\ UNCHANGED <<wvars, sys, encryption_key, remote, local, local_dir, now>>

\* --------------------------------------------------------------- DataSystem
\* save_offline_data: the backup file, always encrypted.
save_offline_data(key, value, t) ==
  [local EXCEPT ![key] = [text |-> encrypt_data(json_dumps(value)), ts |-> t]]

\* save_data's control flow: the backup is written when offline or when
\* write_data raised, not after a status code of any kind.
SaveDataPlan(online, wr, disk) ==
  LET tryLocal == ~online \/ wr = "exception"
  IN [remoteCall |-> online,
      remoteOk |-> online /\ wr = "ok",
      tryLocal |-> tryLocal,
      localw |-> tryLocal /\ disk,
      outcome |-> IF tryLocal /\ ~disk THEN "raise" ELSE "ok"]

save_data(key, value, path, encryption, online, wr, disk) ==
  LET data == IF encryption THEN encrypt_data(json_dumps(value)) ELSE json_dumps(value)
      full_path == <<path, key>>
      plan == SaveDataPlan(online, wr, disk)
  IN /\ sys = "DataSystem"
     /\ ops < MaxOps
     /\ ~plan.tryLocal => disk
     /\ remote' = IF plan.remoteCall THEN db_write_data(full_path, data, wr) ELSE remote
     /\ local' = IF plan.localw THEN save_offline_data(key, value, now) ELSE local
     /\ local_dir' = (local_dir \/ plan.tryLocal)
     /\ ops' = ops + 1
     /\ last' = [Idle EXCEPT !.op = "save_data", !.name = key, !.dir = path,
                             !.e = encryption, !.online = online, !.net = wr,
                             !.outcome = plan.outcome, !.rec = value,
                             !.calls = IF plan.remoteCall THEN 1 ELSE 0,
                             !.writes = IF plan.remoteCall THEN 1 ELSE 0,
                             !.pushed = IF plan.remoteCall THEN data ELSE NoText,
                             !.code = IF online /\ wr # "exception"
                                        THEN write_status(full_path, wr) ELSE 0,
                             !.localw = plan.localw, !.fault = (online /\ wr # "ok")]
     /\ UNCHANGED <<wvars, sys, encryption_key, now>>

\* load_offline_data: [ok, found, rec]; open() raises when there is no file.
load_offline_data(key) ==
  IF local[key] # NoFile /\ decrypt_ok(local[key].text)
    THEN [ok |-> TRUE, found |-> TRUE, rec |-> json_loads(decrypt_data(local[key].text))]
    ELSE [ok |-> FALSE, found |-> FALSE, rec |-> NoRec]

\* load_data: [outcome, found, rec, branch, calls, src]; found is FALSE when it
\* returns None, src is the stored text it went to decode.
LoadDataResult(key, encryption, online, rd) ==
  LET path == <<DataDir, key>>
      off == load_offline_data(key)
      d == Decode(db_read_data(path, rd), encryption)
  IN IF ~online
       THEN [outcome |-> IF off.ok THEN "ok" ELSE "raise", found |-> off.found,
             rec |-> off.rec, branch |-> "offline", calls |-> 0, src |-> local[key].text]
     ELSE IF rd = "exception"
       THEN [outcome |-> "raise", found |-> FALSE, rec |-> NoRec,
             branch |-> "read-failed", calls |-> 1, src |-> NoText]
     ELSE IF db_read_data(path, rd) # NoText
       THEN [outcome |-> IF d.ok THEN "ok" ELSE "raise", found |-> d.ok, rec |-> d.rec,
             branch |-> "remote", calls |-> 1, src |-> db_read_data(path, rd)]
     ELSE [outcome |-> "ok", found |-> FALSE, rec |-> NoRec, branch |-> "nodata",
           calls |-> 1, src |-> NoText]

load_data(key, encryption, online, rd) ==
  LET r == LoadDataResult(key, encryption, online, rd)
  IN /\ sys = "DataSystem"
     /\ ops < MaxOps
     /\ ops' = ops + 1
     /\ last' = [Idle EXCEPT !.op = "load_data", !.name = key, !.dir = DataDir,
                             !.e = encryption, !.online = online, !.net = rd,
                             !.outcome = r.outcome, !.found = r.found, !.rec = r.rec,
                             !.branch = r.branch, !.calls = r.calls, !.pre = PreOf(key),
                             !.fault = (online /\ rd # "ok"), !.lfile = local[key],
                             !.rfile = remote[<<DataDir, key>>], !.src = r.src]
     /\ UNCHANGED <<wvars, sys, encryption_key, remote, local, local_dir, now>>

\* delete_data: a transport exception of db.delete_data is printed, and the
\* local part runs all the same.
delete_data(key, delete_offline, dl) ==
  LET path == <<DataDir, key>>
      removeLocal == delete_offline /\ local[key] # NoFile
  IN /\ sys = "DataSystem"
     /\ ops < MaxOps
     /\ remote' = IF dl = "exception" THEN remote ELSE db_delete_data(path, dl)
     /\ local' = IF removeLocal THEN [local EXCEPT ![key] = NoFile] ELSE local
     /\ ops' = ops + 1
     /\ last' = [Idle EXCEPT !.op = "delete_data", !.name = key, !.dir = DataDir,
                             !.flag = delete_offline, !.net = dl, !.outcome = "ok",
                             !.calls = 1,
                             !.code = IF dl = "exception" THEN 0 ELSE delete_status(path, dl),
                             !.localw = removeLocal, !.pre = PreOf(key),
                             !.fault = (dl # "ok")]
     /\ UNCHANGED <<wvars, sys, encryption_key, local_dir, now>>

\* The offline loop of DataSystem.get_all: all_data[key] = load_offline_data(key),
\* whose exception nothing catches.
RECURSIVE ScanOffline(_, _)
ScanOffline(files, acc) ==
  IF files = <<>> \/ acc.raised THEN acc
  ELSE LET key == Head(files)
           off == load_offline_data(key)
       IN IF ~off.ok THEN [acc EXCEPT !.raised = TRUE]
          ELSE ScanOffline(Tail(files), [acc EXCEPT !.all[key] = off.rec])

\* DataSystem.get_all: [outcome, all].  Online, an exception ends the loop and
\* is printed; what was collected so far is returned.
DataGetAllResult(path, online, ls, rd, order) ==
  LET start == [all |-> NoAll, raised |-> FALSE]
  IN IF online
       THEN IF ls # "ok" THEN [outcome |-> "ok", all |-> NoAll]
            ELSE [outcome |-> "ok",
                  all |-> ScanOnline(RemoteListing(path, order), rd, start).all]
       ELSE IF ~local_dir THEN [outcome |-> "raise", all |-> NoAll]
            ELSE LET r == ScanOffline(LocalListing(order), start)
                 IN IF r.raised THEN [outcome |-> "raise", all |-> NoAll]
                                ELSE [outcome |-> "ok", all |-> r.all]

data_get_all(path, online, ls, rd, order) ==
  LET r == DataGetAllResult(path, online, ls, rd, order)
  IN /\ sys = "DataSystem"
     /\ ops < MaxOps
     /\ ops' = ops + 1
     /\ last' = [Idle EXCEPT !.op = "get_all", !.dir = path, !.online = online, !.net = ls,
                             !.outcome = r.outcome, !.all = r.all,
                             !.calls = IF online THEN 1 ELSE 0,
                             !.fault = (online /\ (ls # "ok" \/ rd # "ok")),
                             !.listed = Stored(path, online),
                             !.bad = Undecodable(path, online)]
     /\ UNCHANGED <<wvars, sys, encryption_key, remote, local, local_dir, now>>

\* ------------------------------------------------------------- environment
\* __init__: a system object built with another key over the same stores.
NewSystem(key) ==
  /\ key # encryption_key
  /\ encryption_key' = key
  /\ last' = Idle
  /\ UNCHANGED <<wvars, sys, remote, local, local_dir, now, ops>>

\* Time passes between two calls.
Tick ==
  /\ now < MaxTime
  /\ now' = now + 1
  /\ UNCHANGED <<wvars, sys, encryption_key, remote, local, local_dir, ops, last>>

Init ==
  /\ sys \in {"PlayerDataSystem", "DataSystem"}
  /\ encryption_key = "A"
  /\ remote = [p \in RemotePaths |-> NoFile]
  /\ local = [n \in Names |-> NoFile]
  /\ local_dir = FALSE
  /\ now = 1
  /\ ops = 0
  /\ last = Idle
  /\ writer = [w \in Writers |-> IdleWriter]
  /\ issued = <<>>

\* The names a call can be about.  The two names are interchangeable, so the
\* first call of a run is about one fixed name; later calls about either.
Callable == IF ops = 0 THEN {CHOOSE n \in Names : TRUE} ELSE Names

\* A public method of the constructed class can be called.
CanCall(class) == sys = class /\ ops < MaxOps

Next ==
  \/ /\ CanCall("PlayerDataSystem")
     /\ \E username \in Callable, player_instance \in Instances, encryption \in BOOLEAN,
           attributes \in AttributeLists, c \in SaveScenarios :
          save_account(username, player_instance, encryption, attributes, PlayerDir,
                       c.online, c.wr, c.disk, c.dt)
  \/ /\ CanCall("PlayerDataSystem")
     /\ \E username \in Callable, player_instance \in Instances, encryption \in BOOLEAN,
           c \in LoadScenarios :
          load_account(username, player_instance, encryption, c.online, c.rd, c.lm, c.wr)
  \/ /\ CanCall("PlayerDataSystem")
     /\ \E username \in Callable, delete_offline \in BOOLEAN, dl \in Net :
          delete_account(username, delete_offline, dl)
  \/ /\ CanCall("PlayerDataSystem")
     /\ \E c \in GetAllScenarios, order \in Orders :
          player_get_all(PlayerDir, c.online, c.ls, c.rd, order)
  \/ /\ CanCall("DataSystem")
     /\ \E key \in Callable, value \in DataValues, encryption \in BOOLEAN,
           c \in {x \in SaveScenarios : x.dt = 0} :
          save_data(key, value, DataDir, encryption, c.online, c.wr, c.disk)
  \/ /\ CanCall("DataSystem")
     /\ \E key \in Callable, encryption \in BOOLEAN,
           c \in {x \in LoadScenarios : x.lm = "ok" /\ x.wr = "ok"} :
          load_data(key, encryption, c.online, c.rd)
  \/ /\ CanCall("DataSystem")
     /\ \E key \in Callable, delete_offline \in BOOLEAN, dl \in Net :
          delete_data(key, delete_offline, dl)
  \/ /\ CanCall("DataSystem")
     /\ \E c \in GetAllScenarios, order \in Orders :
          data_get_all(DataDir, c.online, c.ls, c.rd, order)
  \/ \E key \in FernetKeys : NewSystem(key)
  \/ Tick

Spec == Init /\ [][Next]_vars

\* Two callers of write_data on one path of an empty repository, every
\* request answered by the host.
InitWriters == Init /\ sys = "PlayerDataSystem"

NextWriters ==
  \/ \E w \in Writers, data \in Contents : write_get(w, data)
  \/ \E w \in Writers : write_put(w)

SpecWriters == InitWriters /\ [][NextWriters]_vars

\* ------------------------------------------------------------------ claims
\* The record a stored file holds.
RecordOf(file) == file.text.rec
\* A load whose preceding call was a save of the same key that returned.
LoadAfterSave == last.op \in LoadOps /\ last.pre.saved /\ ~last.pre.deleted
\* An operation all of whose remote calls were answered with a success status.
Healthy == ~last.fault

\* C1: a load of K directly after a save of R under K that returned, with the
\* same encryption flag and the same probe result, no remote call of the load
\* failing, returns (assigns) a record equal to R.
C1_RoundTrip ==
  (LoadAfterSave /\ last.pre.e = last.e /\ last.pre.online = last.online /\ Healthy)
    => (last.outcome = "ok" /\ last.found /\ last.rec = last.pre.rec)

\* C2: an online load_account that finds a remote and a local copy, both
\* decodable, applies the local record and writes it (once) to the remote store
\* when the local copy is strictly newer, and applies the remote record and
\* writes nothing otherwise.
C2_Reconcile ==
  (/\ last.op = "load_account" /\ last.online /\ Healthy
   /\ last.lfile # NoFile /\ last.rfile # NoFile
   /\ decrypt_ok(last.lfile.text) /\ Decode(last.rfile.text, last.e).ok)
    => IF last.lfile.ts > last.rfile.ts
         THEN /\ last.found /\ last.rec = RecordOf(last.lfile)
              /\ last.writes = 1 /\ last.pushed.rec = RecordOf(last.lfile)
         ELSE /\ last.found /\ last.rec = RecordOf(last.rfile)
              /\ last.writes = 0

\* C3: a save whose remote write did not succeed (a status code other than
\* 200/201, or a transport exception) writes the local copy and returns, or
\* raises because the local write failed.
C3_SaveDegrades ==
  (last.op \in SaveOps /\ last.online /\ last.net # "ok")
    => \/ last.outcome = "raise" /\ ~last.localw
       \/ /\ last.outcome = "ok" /\ last.localw
          /\ local[last.name] # NoFile /\ RecordOf(local[last.name]) = last.rec

\* C4: a save whose remote write returned 200 or 201 and that returned has
\* also written the local copy, not before the remote write, and both copies
\* hold the saved record.
C4_SaveSyncsLocal ==
  (last.op \in SaveOps /\ last.code \in {200, 201} /\ last.outcome = "ok")
    => /\ last.localw
       /\ local[last.name] # NoFile /\ RecordOf(local[last.name]) = last.rec
       /\ RecordOf(remote[<<last.dir, last.name>>]) = last.rec
       /\ local[last.name].ts >= remote[<<last.dir, last.name>>].ts

\* C5: with the probe false, save_account(encryption = true) makes no remote
\* call, leaves the remote store and the other backups as they were and, when
\* it returns, has written the backup of that user; a load_account of the same
\* user that follows with the probe still false assigns exactly the saved
\* fields.
C5_OfflineSave ==
  [][ops' = ops + 1 =>
      /\ (last'.op = "save_account" /\ ~last'.online /\ last'.e)
           => /\ remote' = remote
              /\ last'.calls = 0
              /\ \A n \in Names \ {last'.name} : local'[n] = local[n]
              /\ last'.outcome = "ok"
                   => local'[last'.name].text =
                        [fmt |-> "fernet", key |-> encryption_key, rec |-> last'.rec]
      /\ (/\ last'.op = "load_account" /\ ~last'.online
          /\ last.op = "save_account" /\ last.name = last'.name
          /\ ~last.online /\ last.e /\ last.outcome = "ok")
           => /\ last'.outcome = "ok" /\ last'.found
              /\ last'.rec = last.rec
              /\ last'.inst = SetAttrs(last'.before, last.rec)
              /\ remote' = remote /\ local' = local
     ]_vars

C5_Witness ==
  /\ LoadAfterSave /\ last.op = "load_account" /\ ~last.online
  /\ ~last.pre.online /\ last.pre.e
  /\ last.found /\ last.rec = last.pre.rec /\ last.inst # last.before

\* C6: an offline load of K that directly follows a delete of K with
\* delete_offline = false, itself directly following a save of R under K whose
\* writes succeeded, returns R.
C6_DeleteKeepsBackup ==
  (/\ last.op \in LoadOps /\ ~last.online
   /\ last.pre.saved /\ last.pre.deleted /\ last.pre.net = "ok")
    => (last.outcome = "ok" /\ last.found /\ last.rec = last.pre.rec)

\* C7: a DataSystem.get_all (probe false) over two or more stored files of
\* which exactly one cannot be decoded does not raise and returns the records
\* of all the others.
C7_GetAllIsolatesFault ==
  (/\ sys = "DataSystem" /\ last.op = "get_all" /\ ~last.online
   /\ Cardinality(last.listed) >= 2 /\ Cardinality(last.bad) = 1)
    => /\ last.outcome = "ok"
       /\ \A n \in last.listed \ last.bad : last.all[n] = RecordOf(local[n])

\* C8: a get_all none of whose requests failed, over one or more stored files
\* that can all be decoded, returns exactly one entry per stored key: its
\* record.
C8_GetAllComplete ==
  (last.op = "get_all" /\ Healthy /\ last.listed # {} /\ last.bad = {})
    => /\ last.outcome = "ok"
       /\ \A n \in last.listed :
            last.all[n] = StoredText(last.dir, last.online, n).rec
       /\ \A n \in Names \ last.listed : last.all[n] = NoRec

\* C9: a load that goes to decode a copy encrypted under another key than the
\* system's raises, and returns or assigns nothing.
WrongKeyLoad ==
  last.op \in LoadOps /\ last.src.fmt = "fernet" /\ last.src.key # encryption_key

C9_WrongKeyFails ==
  WrongKeyLoad
    => /\ last.outcome = "raise" /\ ~last.found
       /\ last.rec = NoRec /\ last.inst = last.before

C9_Witness == WrongKeyLoad /\ last.outcome = "raise"

\* C10: a load whose remote read fails with a transport exception (probe
\* true) does not raise: it returns the local copy's record when there is a
\* local copy, and reports no record otherwise.
C10_LoadFallsBack ==
  (last.op \in LoadOps /\ last.online /\ last.net = "exception")
    => /\ last.outcome = "ok"
       /\ (last.lfile # NoFile /\ decrypt_ok(last.lfile.text))
            => (last.found /\ last.rec = RecordOf(last.lfile))
       /\ last.lfile = NoFile => ~last.found

\* C11: a delete_account or delete_data called with delete_offline = true on a
\* key that has a local copy has removed the local copy when the call ends,
\* whatever db.delete_data answered (204, another status, a transport
\* exception).
C11_DeleteLocalAnyway ==
  [][(/\ ops' = ops + 1 /\ last'.op \in DeleteOps /\ last'.flag
      /\ local[last'.name] # NoFile)
       => local'[last'.name] = NoFile]_vars

\* The format the encryption flag e asks a stored text to have.
FlagFormat(e) == IF e THEN "fernet" ELSE "json"

\* C12: over a run made of calls on one key that all pass the flag e (one
\* save, or a save_account and the load_account that follows it), the remote
\* copy a call has written is ciphertext when e is true and plain JSON when e
\* is false; this includes the write load_account makes when the local copy is
\* newer.
C12_RemoteRespectsFlag ==
  /\ (ops = 1 /\ last.op \in SaveOps /\ last.code \in {200, 201})
       => remote[<<last.dir, last.name>>].text.fmt = FlagFormat(last.e)
  /\ (/\ ops = 2 /\ last.op = "load_account" /\ last.pre.saved /\ last.pre.e = last.e
      /\ last.writes = 1 /\ Healthy)
       => remote[<<last.dir, last.name>>].text.fmt = FlagFormat(last.e)

\* C13: every file of the local backup store is ciphertext, and every step
\* that writes one writes ciphertext under the system's key, whatever flag
\* the caller passed and whichever branch of the save wrote it.
C13_LocalAlwaysEncrypted ==
  /\ [](\A n \in Names : local[n] # NoFile => local[n].text.fmt = "fernet")
  /\ [][\A n \in Names :
          (local'[n] # local[n] /\ local'[n] # NoFile)
            => /\ local'[n].text.fmt = "fernet"
               /\ local'[n].text.key = encryption_key]_vars

C13_Witness ==
  /\ last.op \in SaveOps /\ ~last.e /\ last.localw
  /\ local[last.name].text.fmt = "fernet" /\ local[last.name].text.key = encryption_key

\* C14: an online load none of whose requests failed, of a key with no remote
\* copy: with a (decodable) local copy it returns the local copy's record and
\* writes nothing to the remote store; with no local copy either it reports
\* that there is no data and changes nothing.
C14_NoRemoteCopy ==
  [][(/\ ops' = ops + 1 /\ last'.op \in LoadOps /\ last'.online /\ ~last'.fault
      /\ last'.rfile = NoFile)
       => /\ (last'.lfile # NoFile /\ decrypt_ok(last'.lfile.text))
               => /\ last'.outcome = "ok" /\ last'.found
                  /\ last'.rec = RecordOf(last'.lfile)
                  /\ last'.writes = 0 /\ remote' = remote
          /\ last'.lfile = NoFile
               => /\ last'.outcome = "ok" /\ ~last'.found /\ last'.rec = NoRec
                  /\ last'.writes = 0 /\ remote' = remote /\ local' = local
                  /\ last'.op = "load_account" => last'.inst = last'.before]_vars

\* An online load_account that took the local-newer branch and whose push was
\* answered with a success status.
Reconciled ==
  /\ last.op = "load_account" /\ last.online /\ Healthy
  /\ last.branch = "local-newer" /\ last.writes = 1

\* C16: the online load_account(K, instance, e) that directly follows a
\* reconciling load_account(K, instance, e) (same key, same instance, same
\* flag, no request failing) succeeds, leaves the instance's fields as they
\* were and writes nothing to the remote store.
C16_ReconcileStable ==
  [][(/\ Reconciled
      /\ ops' = ops + 1 /\ last'.op = "load_account" /\ last'.name = last.name
      /\ last'.e = last.e /\ last'.before = last.inst
      /\ last'.online /\ ~last'.fault)
       => /\ last'.outcome = "ok"
          /\ last'.inst = last.inst
          /\ last'.writes = 0 /\ remote' = remote]_vars

\* C17: a load_account that raises leaves the fields of the caller's
\* player_instance as they were before the call.
C17_FailedLoadAtomic ==
  (last.op = "load_account" /\ last.outcome = "raise") => last.inst = last.before

\* Every write_data call has returned, and at least one PUT was sent.
AllReturned == issued # <<>> /\ \A w \in Writers : writer[w].pc # "put"
\* The PUT sent last.
LastIssued == issued[Len(issued)]
\* The PUTs sent while the hash their caller had fetched was still the file's.
FreshPuts == {i \in 1..Len(issued) : issued[i].fresh}

\* C15 (as stated): when all concurrent write_data calls on the path have
\* returned, the remote file holds the content of the PUT that was sent last.
C15_LastPutWins ==
  AllReturned => remote[WritePath].text = LastIssued.data

\* C15 (amended): when all concurrent write_data calls on the path have
\* returned, the remote file holds the content of the last PUT that was sent
\* while its caller's fetched hash was still current; exactly those PUTs are
\* answered 200/201, a PUT sent with a stale hash is rejected, its content is
\* not stored, and its caller gets the host's failure status (no retry).
C15_CurrentHashWins ==
  AllReturned =>
    /\ FreshPuts # {}
    /\ remote[WritePath].text =
         issued[CHOOSE i \in FreshPuts : \A j \in FreshPuts : j <= i].data
    /\ \A i \in 1..Len(issued) : issued[i].fresh <=> issued[i].status \in {200, 201}
    /\ \A w \in Writers :
         writer[w].pc = "done" =>
           \E i \in 1..Len(issued) :
             /\ issued[i].w = w /\ issued[i].status = writer[w].status
             /\ \A j \in (i + 1)..Len(issued) : issued[j].w # w

C15_Witness ==
  /\ AllReturned /\ Len(issued) >= 3
  /\ LastIssued.status = 409 /\ ~LastIssued.fresh
  /\ \E i \in 1..Len(issued) : issued[i].w # LastIssued.w /\ issued[i].status = 200
  /\ remote[WritePath].text # LastIssued.data

====
